---- MODULE Spec2Model ----
(***************************************************************************)
(* Model of src/DataPullGdrive.py: a one-shot job that fetches a secret,   *)
(* reads one range of a Google spreadsheet, reshapes it into a DataFrame   *)
(* and writes it to Amazon S3 as csv or parquet.                           *)
(*                                                                         *)
(* Python values are modelled as follows.                                  *)
(*  - A str that the code only concatenates or compares is a TLA+ string.  *)
(*  - A str whose characters the code inspects (the compression flag,      *)
(*    lower-cased by str_to_bool) is a sequence of one-character strings.  *)
(*  - A value whose Python type matters is a record [t |-> type, v |-> _]. *)
(*  - None is the string PyNone where a str or None may occur.             *)
(***************************************************************************)
EXTENDS Integers, Sequences, FiniteSets, TLC

VARIABLES
    pc,        \* position of the running script (or of the save_file call)
    run,       \* number of the current job run
    clock,     \* wall clock, in seconds since midnight of ClockBase
    argv,      \* job parameters given on the command line (name -> value)
    args,      \* result of getResolvedOptions (line 22)
    secret,    \* get_secret_value_response / parsed secret (lines 121-126)
    result,    \* response of the range read (line 144)
    data,      \* the DataFrame built at line 150
    calls,     \* external calls issued by the current run, in order
    objects,   \* S3: the set of [path, run] objects present
    written,   \* history: path and clock reading of every write issued
    failedAt,  \* step at which the current run raised, "" if none
    inp,       \* input of the pure function under study
    outp       \* its output

vars == <<pc, run, clock, argv, args, secret, result, data, calls, objects,
          written, failedAt, inp, outp>>

(***************************************************************************)
(* Bounds of the model.                                                    *)
(***************************************************************************)
MaxRuns == 2
MaxTicks == 2
MaxLen == 4
MaxRows == 3
MaxCols == 2

PyNone == "<None>"
NoValue == [t |-> "unset"]

(***************************************************************************)
(* Python built-ins used by the script.                                    *)
(***************************************************************************)
UpperCase == <<"A","B","C","D","E","F","G","H","I","J","K","L","M",
               "N","O","P","Q","R","S","T","U","V","W","X","Y","Z">>
LowerCase == <<"a","b","c","d","e","f","g","h","i","j","k","l","m",
               "n","o","p","q","r","s","t","u","v","w","x","y","z">>

\* str.lower() on one character
LowerChar(c) ==
    IF \E i \in 1..Len(UpperCase) : UpperCase[i] = c
    THEN LowerCase[CHOOSE i \in 1..Len(UpperCase) : UpperCase[i] = c]
    ELSE c

\* str.lower()
Lower(s) == [i \in 1..Len(s) |-> LowerChar(s[i])]

\* sep.join(parts)
RECURSIVE join(_, _)
join(sep, parts) ==
    IF parts = <<>> THEN ""
    ELSE IF Len(parts) = 1 THEN parts[1]
    ELSE parts[1] \o sep \o join(sep, Tail(parts))

\* list[1:]
SliceFrom1(l) == IF l = <<>> THEN <<>> ELSE Tail(l)

Digits == <<"0","1","2","3","4","5","6","7","8","9">>
Pad2(n) == Digits[((n \div 10) % 10) + 1] \o Digits[(n % 10) + 1]
Pad4(n) == Pad2(n \div 100) \o Pad2(n % 100)

\* The date on which the modelled clock starts, and the second of that day.
ClockBase == [year |-> 2024, month |-> 12, day |-> 30, second |-> 86398]

\* datetime.now(): the local wall clock read at second granularity
\* (microseconds are not used by the format of line 59).
Now(c) ==
    [year   |-> ClockBase.year,
     month  |-> ClockBase.month,
     day    |-> ClockBase.day + (c \div 86400),
     hour   |-> (c \div 3600) % 24,
     minute |-> (c \div 60) % 60,
     second |-> c % 60]

\* strftime('%Y_%m_%d_%H_%M_%S') with the seconds field left out
strftime_NoSeconds(dt) ==
    join("_", <<Pad4(dt.year), Pad2(dt.month), Pad2(dt.day),
                Pad2(dt.hour), Pad2(dt.minute)>>)

\* dt.strftime('%Y_%m_%d_%H_%M_%S')
strftime(dt) ==
    join("_", <<Pad4(dt.year), Pad2(dt.month), Pad2(dt.day),
                Pad2(dt.hour), Pad2(dt.minute), Pad2(dt.second)>>)

(***************************************************************************)
(* str_to_bool (lines 35-37).                                              *)
(***************************************************************************)
Str(s) == [t |-> "str", v |-> s]
PyFalse == [t |-> "bool", v |-> FALSE]

TrueStrings == {<<"t","r","u","e">>, <<"1">>, <<"t">>, <<"y">>, <<"y","e","s">>}

\* str_to_bool comparing without lower-casing
str_to_bool_CaseSensitive(val) ==
    IF val.t = "str"
    THEN [raised |-> "", value |-> val.v \in TrueStrings]
    ELSE [raised |-> "AttributeError", value |-> FALSE]

\* val.lower() in ['true', '1', 't', 'y', 'yes']; a bool has no lower()
str_to_bool(val) ==
    IF val.t = "str"
    THEN [raised |-> "", value |-> Lower(val.v) \in TrueStrings]
    ELSE [raised |-> "AttributeError", value |-> FALSE]

(***************************************************************************)
(* save_file (lines 41-108).                                               *)
(***************************************************************************)
\* lines 56-57 with the folder left out of the path
sub_path_NoFolder(bucket, folder, filename) == join("/", <<bucket, filename>>)

\* lines 56-57
sub_path(bucket, folder, filename) == join("/", <<bucket, folder, filename>>)

\* lines 59-62
path(bucket, folder, filename, c) ==
    "s3://" \o join("_", <<sub_path(bucket, folder, filename), strftime(Now(c))>>)

\* lines 63-88: the csv branch; flag is str_to_bool(compression).
\* separator is assigned at line 69 and is not among the keyword arguments
\* of the call at lines 83-88.
csv_branch(df, p, flag) ==
    LET path_ext == p \o ".csv"
        comp_opts == IF flag THEN "zip" ELSE PyNone
    IN
    [separator |-> "\t",
     call |-> [api |-> "wr.s3.to_csv",
               kw |-> [df |-> df,
                       path |-> IF flag THEN path_ext \o "." \o comp_opts ELSE path_ext,
                       compression |-> comp_opts,
                       index |-> FALSE]]]

\* lines 89-107: the parquet branch
parquet_branch(df, p, flag) ==
    LET path_ext == p \o ".parquet"
        comp_opts == IF flag THEN "snappy" ELSE PyNone
    IN
    [separator |-> PyNone,
     call |-> [api |-> "wr.s3.to_parquet",
               kw |-> [df |-> df,
                       path |-> IF flag THEN path_ext \o "." \o comp_opts ELSE path_ext,
                       compression |-> comp_opts,
                       index |-> FALSE]]]

\* line 63 deciding the format case-insensitively
is_csv_AnyCase(output_format) == output_format \in {"csv", "CSV", "Csv"}

\* line 63
is_csv(output_format) == output_format = "csv"

\* save_file up to the serializer call: either it raises before any call,
\* or it issues exactly the returned call.
save_file(df, bucket, folder, filename, output_format, compression, c) ==
    LET p == path(bucket, folder, filename, c)
        b == str_to_bool(compression)
    IN
    IF b.raised # ""
    THEN [raised |-> b.raised, issued |-> <<>>]
    ELSE [raised |-> "",
          issued |-> <<IF is_csv(output_format)
                       THEN csv_branch(df, p, b.value).call
                       ELSE parquet_branch(df, p, b.value).call>>]

(***************************************************************************)
(* Reshape (lines 147-150).                                                *)
(***************************************************************************)
Max(S) == CHOOSE m \in S : \A n \in S : n <= m

\* a row padded on the right with None up to width w
PadRow(row, w) == [j \in 1..w |-> IF j <= Len(row) THEN row[j] ELSE PyNone]

\* pd.DataFrame(rows, columns=columns) for a list of lists: pandas pads the
\* rows to the longest one and raises ValueError when that width differs
\* from the number of column names; no rows give an empty frame.
DataFrame(rows, columns) ==
    IF rows = <<>>
    THEN [raised |-> "", df |-> [columns |-> columns, records |-> <<>>]]
    ELSE LET w == Max({Len(rows[i]) : i \in 1..Len(rows)}) IN
         IF w # Len(columns)
         THEN [raised |-> "ValueError", df |-> NoValue]
         ELSE [raised |-> "",
               df |-> [columns |-> columns,
                       records |-> [i \in 1..Len(rows) |-> PadRow(rows[i], w)]]]

\* line 150 taking every row, the header included, as a record
reshape_KeepHeader(res) ==
    IF ~res.has_values THEN [raised |-> "TypeError", df |-> NoValue]
    ELSE IF res.values = <<>> THEN [raised |-> "IndexError", df |-> NoValue]
    ELSE DataFrame(res.values, res.values[1])

\* lines 147-150: data = result.get('values');
\* data = pd.DataFrame(data[1:], columns=data[0]).
\* result.get('values') is None when the response has no 'values' key, and
\* None[1:] raises TypeError; [][0] raises IndexError.
reshape(res) ==
    IF ~res.has_values THEN [raised |-> "TypeError", df |-> NoValue]
    ELSE IF res.values = <<>> THEN [raised |-> "IndexError", df |-> NoValue]
    ELSE DataFrame(SliceFrom1(res.values), res.values[1])

(***************************************************************************)
(* The job script (lines 22-32 and 111-156).                               *)
(***************************************************************************)
Required == {"google_secret_name", "google_secret_region", "google_spreadsheet_id",
             "google_spreadsheet_tab", "bucket", "folder", "filename",
             "output_format", "compression"}

ScriptOrder == <<"resolve", "client", "get_secret", "parse_secret", "credentials",
                 "build", "range_read", "reshape", "save", "done">>

StepIndex(step) == CHOOSE i \in 1..Len(ScriptOrder) : ScriptOrder[i] = step

\* the statement that follows a statement that completed
After(step) == ScriptOrder[StepIndex(step) + 1]

\* an exception handled by going on with the next statement
Raise_Swallowed(step) == After(step)

\* no try/except anywhere in the script: an exception ends the run
Raise(step) == "failed"

\* the secret fetch issued twice
get_secret_calls_Retried(a) ==
    <<[api |-> "secretsmanager.get_secret_value",
       kw |-> [SecretId |-> a["google_secret_name"]]],
      [api |-> "secretsmanager.get_secret_value",
       kw |-> [SecretId |-> a["google_secret_name"]]]>>

\* lines 121-123
get_secret_calls(a) ==
    <<[api |-> "secretsmanager.get_secret_value",
       kw |-> [SecretId |-> a["google_secret_name"]]]>>

\* lines 144-146
range_read_calls(a) ==
    <<[api |-> "sheets.values.get",
       kw |-> [spreadsheetId |-> a["google_spreadsheet_id"],
               range |-> a["google_spreadsheet_tab"]]]>>

\* lines 151-156
save_file_from_args(df, a, c) ==
    save_file(df, a["bucket"], a["folder"], a["filename"], a["output_format"],
              a["compression"], c)

(***************************************************************************)
(* Inputs of the model.                                                    *)
(***************************************************************************)
Folders == {"data", "raw/sheets"}
Filenames == {"filename", "report"}
OutputFormats == {"csv", "CSV", "anything-else"}
Compressions == {Str(<<"y","e","s">>), Str(<<"f","a","l","s","e">>),
                 Str(<<"T">>), Str(<<"o","n">>)}

JobParameters(folder, filename, output_format, compression) ==
    [google_secret_name |-> "gsheet-key",
     google_secret_region |-> "us-east-1",
     google_spreadsheet_id |-> "sheet-id",
     google_spreadsheet_tab |-> "Sheet1",
     bucket |-> "my-bucket",
     folder |-> folder,
     filename |-> filename,
     output_format |-> output_format,
     compression |-> compression]

Without(f, k) == [x \in (DOMAIN f) \ {k} |-> f[x]]

\* command lines: every parameter given, or one required parameter missing
CommandLines ==
    {JobParameters(fo, fi, of, co) :
        fo \in Folders, fi \in Filenames, of \in OutputFormats, co \in Compressions}
    \cup {Without(JobParameters("data", "filename", "csv", Str(<<"y","e","s">>)), k) :
            k \in {"bucket", "compression"}}

\* what get_secret_value can return: a JSON service-account key, a secret
\* stored as binary (no 'SecretString'), a string that is not JSON, and JSON
\* without the service-account fields
SecretResponses == {"service_account_json", "binary", "not_json", "other_json"}

ExampleValues == <<<<"a","b">>, <<"1","2">>, <<"3","4">>>>

\* responses of spreadsheets.values.get: an empty range has no 'values' key
RangeResponses ==
    {[has_values |-> FALSE, values |-> <<>>],
     [has_values |-> TRUE, values |-> <<<<"a","b">>>>],
     [has_values |-> TRUE, values |-> ExampleValues],
     [has_values |-> TRUE, values |-> <<<<"a","b">>, <<"1">>, <<"3","4">>>>],
     [has_values |-> TRUE, values |-> <<<<"a">>, <<"1","2">>>>]}

(***************************************************************************)
(* State after the interpreter has loaded the script.                      *)
(***************************************************************************)
Init ==
    /\ pc = "resolve"
    /\ run = 1
    /\ clock = ClockBase.second
    /\ argv \in CommandLines
    /\ args = NoValue
    /\ secret = NoValue
    /\ result = NoValue
    /\ data = NoValue
    /\ calls = <<>>
    /\ objects = {}
    /\ written = <<>>
    /\ failedAt = ""
    /\ inp = NoValue
    /\ outp = NoValue

\* an uncaught exception at `step`
Fail(step) ==
    /\ pc' = Raise(step)
    /\ failedAt' = step

Proceed(step) ==
    /\ pc' = After(step)
    /\ failedAt' = failedAt

\* S3 PutObject: the object at `p` is replaced
Put(objs, p, r, complete) ==
    {o \in objs : o.path # p} \cup {[path |-> p, run |-> r, complete |-> complete]}

\* lines 22-32: getResolvedOptions raises when a required option is missing
Resolve ==
    /\ pc = "resolve"
    /\ IF Required \subseteq DOMAIN argv
       THEN /\ args' = [k \in Required |-> argv[k]]
            /\ Proceed("resolve")
       ELSE /\ args' = args
            /\ Fail("resolve")
    /\ UNCHANGED <<run, clock, argv, secret, result, data, calls, objects,
                   written, inp, outp>>

\* lines 115-119: boto3 session and client; no request is sent
Client ==
    /\ pc = "client"
    /\ \E ok \in BOOLEAN : IF ok THEN Proceed("client") ELSE Fail("client")
    /\ UNCHANGED <<run, clock, argv, args, secret, result, data, calls, objects,
                   written, inp, outp>>

\* lines 121-123: the secret fetch
GetSecret ==
    /\ pc = "get_secret"
    /\ calls' = calls \o get_secret_calls(args)
    /\ \/ \E r \in SecretResponses : secret' = r /\ Proceed("get_secret")
       \/ secret' = secret /\ Fail("get_secret")
    /\ UNCHANGED <<run, clock, argv, args, result, data, objects, written, inp, outp>>

\* lines 125-126: ['SecretString'] and json.loads
ParseSecret ==
    /\ pc = "parse_secret"
    /\ IF secret \in {"binary", "not_json"}
       THEN Fail("parse_secret")
       ELSE Proceed("parse_secret")
    /\ UNCHANGED <<run, clock, argv, args, secret, result, data, calls, objects,
                   written, inp, outp>>

\* lines 132-134: from_service_account_info
Credentials ==
    /\ pc = "credentials"
    /\ IF secret = "service_account_json"
       THEN Proceed("credentials")
       ELSE Fail("credentials")
    /\ UNCHANGED <<run, clock, argv, args, secret, result, data, calls, objects,
                   written, inp, outp>>

\* lines 138-139: build('sheets', 'v4', ...) and service.spreadsheets()
Build ==
    /\ pc = "build"
    /\ \E ok \in BOOLEAN : IF ok THEN Proceed("build") ELSE Fail("build")
    /\ UNCHANGED <<run, clock, argv, args, secret, result, data, calls, objects,
                   written, inp, outp>>

\* lines 144-146: the range read
RangeRead ==
    /\ pc = "range_read"
    /\ calls' = calls \o range_read_calls(args)
    /\ \/ \E r \in RangeResponses : result' = r /\ Proceed("range_read")
       \/ result' = result /\ Fail("range_read")
    /\ UNCHANGED <<run, clock, argv, args, secret, data, objects, written, inp, outp>>

\* lines 147-150
Reshape ==
    /\ pc = "reshape"
    /\ LET r == reshape(result) IN
       IF r.raised = ""
       THEN data' = r.df /\ Proceed("reshape")
       ELSE data' = data /\ Fail("reshape")
    /\ UNCHANGED <<run, clock, argv, args, secret, result, calls, objects,
                   written, inp, outp>>

\* The serializer call of save_file (lines 83-88 and 102-107): the call is
\* issued once; it writes the object, or it raises and leaves the object
\* absent or partially written.
Serialize(o, step, donePc) ==
    IF o.raised # ""
    THEN /\ Fail(step)
         /\ UNCHANGED <<calls, objects, written>>
    ELSE LET p == o.issued[1].kw.path IN
         /\ calls' = calls \o o.issued
         /\ written' = Append(written, [run |-> run, path |-> p, at |-> clock])
         /\ \/ /\ objects' = Put(objects, p, run, TRUE)
               /\ pc' = donePc
               /\ failedAt' = failedAt
            \/ /\ objects' \in {objects, Put(objects, p, run, FALSE)}
               /\ Fail("serializer")

\* lines 151-156
Save ==
    /\ pc = "save"
    /\ Serialize(save_file_from_args(data, args, clock), "save", After("save"))
    /\ UNCHANGED <<run, clock, argv, args, secret, result, data, inp, outp>>

\* the scheduler starts the job again with the same parameters
StartRun ==
    /\ pc \in {"done", "failed"}
    /\ run < MaxRuns
    /\ run' = run + 1
    /\ pc' = "resolve"
    /\ args' = NoValue
    /\ secret' = NoValue
    /\ result' = NoValue
    /\ data' = NoValue
    /\ calls' = <<>>
    /\ failedAt' = ""
    /\ UNCHANGED <<clock, argv, objects, written, inp, outp>>

\* a second passes on the wall clock
Tick ==
    /\ clock - ClockBase.second < MaxTicks
    /\ clock' = clock + 1
    /\ UNCHANGED <<pc, run, argv, args, secret, result, data, calls, objects,
                   written, failedAt, inp, outp>>

Next ==
    \/ Resolve
    \/ Client
    \/ GetSecret
    \/ ParseSecret
    \/ Credentials
    \/ Build
    \/ RangeRead
    \/ Reshape
    \/ Save
    \/ StartRun
    \/ Tick

Spec == Init /\ [][Next]_vars

(***************************************************************************)
(* save_file called directly, with any of its optional parameters left     *)
(* out (lines 41-43).                                                      *)
(***************************************************************************)
Optional == {"folder", "filename", "output_format", "compression"}

ExampleFrame == [columns |-> <<"a","b">>, records |-> <<<<"1","2">>, <<"3","4">>>>]

\* the arguments of one call: df and bucket always, the others if given
SaveFileCalls ==
    {[k \in {"df", "bucket"} \cup given |->
        IF k = "df" THEN ExampleFrame ELSE JobParameters(fo, fi, of, co)[k]] :
        fo \in Folders, fi \in Filenames, of \in OutputFormats, co \in Compressions,
        given \in SUBSET Optional}

\* lines 41-43: parameter binding with the defaults of the signature
BindDefaults(kw) ==
    [df |-> kw["df"],
     bucket |-> kw["bucket"],
     folder |-> IF "folder" \in DOMAIN kw THEN kw["folder"] ELSE "data",
     filename |-> IF "filename" \in DOMAIN kw THEN kw["filename"] ELSE "filename",
     output_format |-> IF "output_format" \in DOMAIN kw THEN kw["output_format"] ELSE "csv",
     compression |-> IF "compression" \in DOMAIN kw THEN kw["compression"] ELSE PyFalse]

InitSaveFile ==
    /\ pc = "save_file"
    /\ run = 1
    /\ clock = ClockBase.second
    /\ argv = NoValue
    /\ args = NoValue
    /\ secret = NoValue
    /\ result = NoValue
    /\ data = NoValue
    /\ calls = <<>>
    /\ objects = {}
    /\ written = <<>>
    /\ failedAt = ""
    /\ inp \in SaveFileCalls
    /\ outp = NoValue

\* one call of save_file(df, bucket, ...)
CallSaveFile ==
    /\ pc = "save_file"
    /\ args' = BindDefaults(inp)
    /\ Serialize(save_file(args'.df, args'.bucket, args'.folder, args'.filename,
                           args'.output_format, args'.compression, clock),
                 "save_file", "returned")
    /\ UNCHANGED <<run, clock, argv, secret, result, data, inp, outp>>

NextSaveFile ==
    \/ CallSaveFile
    \/ Tick

SpecSaveFile == InitSaveFile /\ [][NextSaveFile]_vars

(***************************************************************************)
(* str_to_bool applied to every short string over an alphabet that holds   *)
(* the letters of the accepted words in both cases, a digit and a blank.   *)
(***************************************************************************)
Chars == {"t", "T", "r", "R", "u", "e", "E", "y", "Y", "s", "1", " "}

Strings(n) == UNION {[1..k -> Chars] : k \in 0..n}

NamedStrings ==
    {<<"o","n">>, <<"e","n","a","b","l","e","d">>, <<"f","a","l","s","e">>,
     <<"T","R","U","E">>, <<"Y","E","S">>, <<" ","y","e","s">>, <<"y","e","s"," ">>,
     <<"0">>, <<"n","o">>}

InitStrToBool ==
    /\ pc = "str_to_bool"
    /\ run = 1
    /\ clock = ClockBase.second
    /\ argv = NoValue
    /\ args = NoValue
    /\ secret = NoValue
    /\ result = NoValue
    /\ data = NoValue
    /\ calls = <<>>
    /\ objects = {}
    /\ written = <<>>
    /\ failedAt = ""
    /\ inp \in {Str(s) : s \in Strings(MaxLen) \cup NamedStrings}
    /\ outp = NoValue

ApplyStrToBool ==
    /\ pc = "str_to_bool"
    /\ outp' = str_to_bool(inp)
    /\ pc' = "applied"
    /\ UNCHANGED <<run, clock, argv, args, secret, result, data, calls, objects,
                   written, failedAt, inp>>

NextStrToBool == ApplyStrToBool

SpecStrToBool == InitStrToBool /\ [][NextStrToBool]_vars

(***************************************************************************)
(* The reshape of lines 147-150 applied to every small response.  The      *)
(* Sheets API leaves out trailing empty rows, so a response that has       *)
(* values ends with a row that has at least one cell; rows in between may  *)
(* be empty or shorter or longer than the header.                          *)
(***************************************************************************)
Cells == {"a", "1"}

RowsUpTo(w) == UNION {[1..k -> Cells] : k \in 0..w}

ValuesUpTo(n, w) ==
    {v \in UNION {[1..k -> RowsUpTo(w)] : k \in 1..n} : v[Len(v)] # <<>>}

ReshapeInputs ==
    {[has_values |-> TRUE, values |-> v] : v \in ValuesUpTo(MaxRows, MaxCols)}
    \cup RangeResponses

InitReshape ==
    /\ pc = "reshape"
    /\ run = 1
    /\ clock = ClockBase.second
    /\ argv = NoValue
    /\ args = NoValue
    /\ secret = NoValue
    /\ result = NoValue
    /\ data = NoValue
    /\ calls = <<>>
    /\ objects = {}
    /\ written = <<>>
    /\ failedAt = ""
    /\ inp \in ReshapeInputs
    /\ outp = NoValue

ApplyReshape ==
    /\ pc = "reshape"
    /\ outp' = reshape(inp)
    /\ pc' = "reshaped"
    /\ UNCHANGED <<run, clock, argv, args, secret, result, data, calls, objects,
                   written, failedAt, inp>>

NextReshape == ApplyReshape

SpecReshape == InitReshape /\ [][NextReshape]_vars

(***************************************************************************)
(* Properties.                                                             *)
(***************************************************************************)
SecretFetch == "secretsmanager.get_secret_value"
RangeGet == "sheets.values.get"
Serializers == {"wr.s3.to_csv", "wr.s3.to_parquet"}

CallKind(call) ==
    IF call.api = SecretFetch THEN "secret_fetch"
    ELSE IF call.api = RangeGet THEN "range_read"
    ELSE IF call.api \in Serializers THEN "storage_write"
    ELSE "other"

RunOrder == <<"secret_fetch", "range_read", "storage_write">>

\* C1: a run that completes has made exactly one secret fetch, then one
\* range read, then one storage write; at every moment the calls made so far
\* are the first calls of that sequence, so none is repeated and none is out
\* of order.
C1_CallSequence ==
    /\ Len(calls) <= Len(RunOrder)
    /\ \A i \in 1..Len(calls) : CallKind(calls[i]) = RunOrder[i]
    /\ pc = "done" =>
         /\ Len(calls) = 3
         /\ calls[1].kw.SecretId = args["google_secret_name"]
         /\ calls[2].kw.spreadsheetId = args["google_spreadsheet_id"]
         /\ calls[2].kw.range = args["google_spreadsheet_tab"]

C1_Witness == pc = "done" /\ Len(calls) = 3 /\ run = 2

\* the number of calls a run has issued when it raises at `step`
CallsIssuedBy(step) ==
    IF step \in {"resolve", "client"} THEN 0
    ELSE IF step \in {"get_secret", "parse_secret", "credentials", "build"} THEN 1
    ELSE IF step \in {"range_read", "reshape", "save"} THEN 2
    ELSE 3

\* C2: a run that raised at a step has stopped there: it is in its failed
\* state, it has issued the calls up to that step and none of a later step,
\* and unless it raised inside the storage write itself it has issued no
\* storage write and has left no object.
C2_FailureStopsRun ==
    failedAt # "" =>
        /\ pc = "failed"
        /\ Len(calls) = CallsIssuedBy(failedAt)
        /\ failedAt # "serializer" =>
             /\ \A i \in 1..Len(calls) : CallKind(calls[i]) # "storage_write"
             /\ \A o \in objects : o.run # run
             /\ \A i \in 1..Len(written) : written[i].run # run

C2_Witness ==
    /\ pc = "failed"
    /\ failedAt = "reshape"
    /\ Len(calls) = 2
    /\ objects # {}

\* the words of the coercion, as the specification lists them
AcceptedWords == {<<"t","r","u","e">>, <<"1">>, <<"t">>, <<"y">>, <<"y","e","s">>}

\* c is the letter d or its upper-case form
SameLetter(c, d) ==
    \/ c = d
    \/ \E i \in 1..Len(UpperCase) : UpperCase[i] = c /\ LowerCase[i] = d

EqualIgnoringCase(s, w) ==
    /\ Len(s) = Len(w)
    /\ \A i \in 1..Len(s) : SameLetter(s[i], w[i])

CoercesTrue(s) == \E w \in AcceptedWords : EqualIgnoringCase(s, w)

\* YYYY_MM_DD_HH_MM_SS of the clock reading c
Timestamp(c) ==
    LET dt == Now(c) IN
    Pad4(dt.year) \o "_" \o Pad2(dt.month) \o "_" \o Pad2(dt.day) \o "_" \o
    Pad2(dt.hour) \o "_" \o Pad2(dt.minute) \o "_" \o Pad2(dt.second)

\* s3://{bucket}/{folder}/{filename}_{timestamp}
Stem(a, c) ==
    "s3://" \o a["bucket"] \o "/" \o a["folder"] \o "/" \o a["filename"] \o "_" \o
    Timestamp(c)

\* the storage write of the current run has been issued
WriteIssued ==
    /\ Len(calls) = 3
    /\ written # <<>>
    /\ written[Len(written)].run = run

LastWrite == written[Len(written)]

\* C3: the path of the storage write is
\* s3://{bucket}/{folder}/{filename}_{timestamp}.{ext}[.{compression_ext}]
\* with csv/zip on the csv branch and parquet/snappy on the other, the
\* suffix present exactly when the compression flag coerces to true, and
\* the codec passed is zip/snappy with the suffix and None without it.
C3_PathPattern ==
    WriteIssued =>
        LET kw == calls[3].kw
            csv == args["output_format"] = "csv"
            ext == IF csv THEN "csv" ELSE "parquet"
            cext == IF csv THEN "zip" ELSE "snappy"
            flag == CoercesTrue(args["compression"].v)
        IN
        /\ kw.path = Stem(args, LastWrite.at) \o "." \o ext \o
                     (IF flag THEN "." \o cext ELSE "")
        /\ kw.compression = (IF flag THEN cext ELSE PyNone)
        /\ LastWrite.path = kw.path

C3_Witness ==
    /\ WriteIssued
    /\ pc = "done"
    /\ args["folder"] = "raw/sheets"
    /\ args["output_format"] = "csv"
    /\ args["compression"] = Str(<<"T">>)
    /\ clock > LastWrite.at
    /\ calls[3].kw.compression = "zip"

\* the field separator the csv serializer works with: the keyword argument
\* sep when the call passes one, else the default of wr.s3.to_csv
to_csv_sep(kw) == IF "sep" \in DOMAIN kw THEN kw["sep"] ELSE ","

\* C4: every call of the csv serializer has horizontal tab as its field
\* separator and does not write the row index, and with a compression flag
\* that coerces to true its path ends in .csv.zip.
C4_CsvTabSeparated ==
    (WriteIssued /\ args["output_format"] = "csv") =>
        LET kw == calls[3].kw IN
        /\ calls[3].api = "wr.s3.to_csv"
        /\ to_csv_sep(kw) = "\t"
        /\ kw.index = FALSE
        /\ CoercesTrue(args["compression"].v) =>
             kw.path = Stem(args, LastWrite.at) \o ".csv.zip"

\* the writer has been entered and has finished, one way or the other
WriterFinished == pc = "done" \/ (pc = "failed" /\ failedAt \in {"save", "serializer"})

SerializerCalls == {i \in 1..Len(calls) : calls[i].api \in Serializers}

\* C5: the writer invokes exactly one serializer: the csv one exactly when
\* output_format is the string "csv", the parquet one for every other
\* value, and it raises nothing of its own; "anything-else" with "false"
\* gives a path ending in .parquet and no compression.
C5_FormatBranch ==
    WriterFinished =>
        /\ failedAt # "save"
        /\ Cardinality(SerializerCalls) = 1
        /\ \A i \in SerializerCalls :
             /\ (calls[i].api = "wr.s3.to_csv") <=> (args["output_format"] = "csv")
             /\ (calls[i].api = "wr.s3.to_parquet") <=> (args["output_format"] # "csv")
             /\ (/\ args["output_format"] = "anything-else"
                 /\ args["compression"] = Str(<<"f","a","l","s","e">>)) =>
                   /\ calls[i].kw.path = Stem(args, LastWrite.at) \o ".parquet"
                   /\ calls[i].kw.compression = PyNone

C5_Witness ==
    /\ pc = "done"
    /\ args["output_format"] = "CSV"
    /\ calls[3].api = "wr.s3.to_parquet"

\* C6: for every string, str_to_bool raises nothing and yields true exactly
\* when the string equals, ignoring case, one of "true", "1", "t", "y",
\* "yes"; "on", "enabled", "false", the empty string and an accepted word
\* with a blank before or after it yield false.
C6_Coercion ==
    pc = "applied" =>
        /\ outp.raised = ""
        /\ outp.value <=> CoercesTrue(inp.v)
        /\ inp.v \in {<<"o","n">>, <<"e","n","a","b","l","e","d">>,
                      <<"f","a","l","s","e">>, <<>>,
                      <<" ","y","e","s">>, <<"y","e","s"," ">>} => ~outp.value

C6_Witness ==
    /\ pc = "applied"
    /\ inp.v = <<"Y","e","s">>
    /\ outp.value

EmptyTable == [columns |-> <<>>, records |-> <<>>]

\* C7: when the range read returned a response without values, the reshape
\* yields a table with no columns and no records and the run goes on to the
\* writer instead of failing at the reshape.
C7_EmptyResultWritten ==
    (result # NoValue /\ ~result.has_values /\ pc # "reshape") =>
        /\ failedAt # "reshape"
        /\ data = EmptyTable
        /\ pc = "done" => Cardinality(SerializerCalls) = 1

\* C8 as stated: any two writes of runs with the same configuration go to
\* different paths.
C8_DistinctPaths ==
    \A i, j \in 1..Len(written) :
        i < j => written[i].path # written[j].path

\* C8 as amended: two writes of runs with the same configuration go to
\* different paths exactly when their clock readings differ at second
\* granularity; writes issued within the same second go to the same path.
C8_DistinctWhenClockDiffers ==
    \A i, j \in 1..Len(written) :
        i < j => ((written[i].path = written[j].path) <=> (written[i].at = written[j].at))

C8_Witness ==
    /\ Len(written) = 2
    /\ written[1].run # written[2].run
    /\ written[1].at < written[2].at
    /\ written[1].path # written[2].path
    /\ Cardinality(objects) = 2

Rectangular(v) == \A i \in 2..Len(v) : Len(v[i]) = Len(v[1])

\* the outcome o is the table with row 0 of v as column names and rows 1..N
\* as records, cell by cell
IsTableOf(o, v) ==
    /\ o.raised = ""
    /\ o.df.columns = v[1]
    /\ Len(o.df.records) = Len(v) - 1
    /\ \A i \in 1..(Len(v) - 1) :
         /\ Len(o.df.records[i]) = Len(v[1])
         /\ Len(v[i + 1]) = Len(v[1])
         /\ \A j \in 1..Len(v[1]) : o.df.records[i][j] = v[i + 1][j]

C10_DefaultsCall ==
    (pc # "save_file" /\ DOMAIN inp = {"df", "bucket"} /\ failedAt # "serializer") =>
        /\ pc = "returned"
        /\ Len(calls) = 1
        /\ calls[1].api = "wr.s3.to_csv"
        /\ calls[1].kw.compression = PyNone
        /\ calls[1].kw.path = "s3://" \o inp["bucket"] \o "/data/filename_" \o
                              Timestamp(written[1].at) \o ".csv"

====
